---- MODULE Spec2Model ----
(***************************************************************************)
(* State-machine model of the echo-chamber simulation: the extended model  *)
(* (src/src/echochamber: EchoChamber / EchoChamberAgent) and the baseline  *)
(* model (src/src/schelling: Echochamber / SchellingAgent).                *)
(*                                                                         *)
(* Python floats are modelled in fixed point: the integer Unit stands for  *)
(* 1.0, a product x*y is (x*y) \div Unit and a quotient x/n is x \div n.   *)
(* The grid is a torus of Width cells in one row (height 1), so the Moore  *)
(* neighbourhood of radius 1 of cell p is the cells p-1 and p+1.           *)
(***************************************************************************)
EXTENDS Integers, Sequences, FiniteSets, TLC

VARIABLES
    agents,     \* unique_id -> agent record (the fields of the agent object)
    model,      \* the model object's fields
    todo,       \* agents the running tick has still to step (shuffle_do)
    err,        \* "none", or the exception that ended the program
    last        \* history: what the last action observed and decided

vars == <<agents, model, todo, err, last>>

----------------------------------------------------------------------------
(* Bounds of the model *)

Width == 5          \* cells of the torus
MaxTicks == 2       \* ticks of the extended model explored by Spec
MaxRuns == 6        \* updates explored by SpecRec
MaxSteps == 3       \* largest max_steps given to the baseline model
MaxPlateauTicks == 8 \* ticks explored by SpecPlateau
MaxBlockTicks == 3  \* ticks explored by SpecBlock
MaxConnRuns == 4    \* updates and engagements explored by SpecConn

----------------------------------------------------------------------------
(* Fixed-point arithmetic *)

Unit == 10000

Dec(n, d) == (n * Unit) \div d

Mul(x, y) == (x * y) \div Unit

Min(x, y) == IF x <= y THEN x ELSE y

Max(x, y) == IF x >= y THEN x ELSE y

Abs(x) == IF x >= 0 THEN x ELSE 0 - x

RECURSIVE SumOver(_, _)
SumOver(f, S) ==
    IF S = {} THEN 0
    ELSE LET k == CHOOSE k \in S : TRUE IN f[k] + SumOver(f, S \ {k})

RECURSIVE SumSeq(_)
SumSeq(s) == IF s = <<>> THEN 0 ELSE Head(s) + SumSeq(Tail(s))

NoFn == [x \in {} |-> 0]

----------------------------------------------------------------------------
(* Agent construction: EchoChamberAgent.__init__ / SchellingAgent.__init__ *)
(* A human carries the AI-only fields with their initial values; the code  *)
(* reads them only behind a test of type and ai_subtype.                   *)

BotActions == <<"cluster", "coordinate", "engage", "amplify">>

RecActions == <<"personalize", "explore", "exploit">>

BotRewards ==
    [cluster_growth |-> Dec(8, 10), cluster_influence |-> Dec(5, 10),
     engagement_growth |-> Dec(4, 10), influence_success |-> Dec(6, 10)]

RecRewards ==
    [recommendation_success |-> Dec(7, 10), user_engagement |-> Dec(4, 10),
     preference_match |-> Dec(5, 10)]

rewards(a) == IF a.ai_subtype = 0 THEN BotRewards ELSE RecRewards

ActionsOf(a) ==
    IF a.type # 1 THEN <<>>
    ELSE IF a.ai_subtype = 0 THEN BotActions ELSE RecActions

NewInteractionHistory ==
    [bot_bot |-> 0, bot_human |-> 0, recommendation_influence |-> 0,
     interaction_success |-> 0, last_interaction_type |-> "None",
     influenced_agents |-> {}]

NewAgent(agent_type, content_preference, base_homophily, engagement_rate, ai_subtype, pos) ==
    [type |-> agent_type,
     ai_subtype |-> ai_subtype,
     preference |-> content_preference,
     base_homophily |-> base_homophily,
     current_homophily |-> base_homophily,
     engagement_rate |-> engagement_rate,
     likes |-> 0, comments |-> 0, shares |-> 0,
     echo_chamber_strength |-> 0,
     amplification_power |-> Unit,
     bot_cluster_size |-> 0,
     human_influence_radius |-> 1,
     learning_rate |-> Dec(1, 10),
     discount_factor |-> Dec(9, 10),
     q_values |-> IF agent_type # 1 THEN NoFn
                  ELSE IF ai_subtype = 0
                       THEN [k \in {BotActions[i] : i \in 1..4} |-> 0]
                       ELSE [k \in {RecActions[i] : i \in 1..3} |-> 0],
     action_history |-> <<>>,
     recommendation_strength |-> Unit,
     success_rate |-> 0,
     user_profiles |-> NoFn,
     connections |-> NoFn,
     interaction_history |-> NewInteractionHistory,
     pos |-> pos]

\* A connection_threshold of 0.1 where line 93 has 0.3.
connection_threshold_tenth == Dec(1, 10)

connection_threshold == Dec(3, 10)

IsBot(a) == a.type = 1 /\ a.ai_subtype = 0

IsRecSys(a) == a.type = 1 /\ a.ai_subtype = 1

----------------------------------------------------------------------------
(* The grid collaborator (mesa SingleGrid, torus, one row of Width cells) *)

NeighborCells(p) ==
    LET l == (p + Width - 1) % Width
        r == (p + 1) % Width
    IN  IF l = p THEN <<>> ELSE IF l = r THEN <<l>> ELSE <<l, r>>

get_neighbors(ag, p) ==
    LET occupied(c) == \E i \in DOMAIN ag : ag[i].pos = c
        cells == SelectSeq(NeighborCells(p), occupied)
    IN  [k \in 1..Len(cells) |->
            CHOOSE i \in DOMAIN ag : ag[i].pos = cells[k]]

EmptyCells(ag) == {c \in 0..(Width - 1) : \A i \in DOMAIN ag : ag[i].pos # c}

----------------------------------------------------------------------------
(* Connection network: EchoChamberAgent._update_network_connections *)

\* _calculate_direct_strength with the two values of line 470 exchanged.
calculate_direct_strength_swapped(a, o) ==
    LET preference_match ==
            IF a.preference = o.preference THEN Dec(3, 10) ELSE Unit
        engagement_similarity ==
            Min(Unit, (Abs(a.likes - o.likes) * Dec(3, 10)
                       + Abs(a.comments - o.comments) * Dec(4, 10)
                       + Abs(a.shares - o.shares) * Dec(3, 10)) \div 10)
    IN  (preference_match + engagement_similarity) \div 2

calculate_direct_strength(a, o) ==
    LET preference_match ==
            IF a.preference = o.preference THEN Unit ELSE Dec(3, 10)
        engagement_similarity ==
            Min(Unit, (Abs(a.likes - o.likes) * Dec(3, 10)
                       + Abs(a.comments - o.comments) * Dec(4, 10)
                       + Abs(a.shares - o.shares) * Dec(3, 10)) \div 10)
    IN  (preference_match + engagement_similarity) \div 2

calculate_indirect_strength(a, o) ==
    LET shared_connections == DOMAIN a.connections \cap DOMAIN o.connections
        least == [c \in shared_connections |->
                    Min(a.connections[c].strength, o.connections[c].strength)]
    IN  IF shared_connections = {} THEN 0
        ELSE Min(Unit, SumOver(least, shared_connections)
                        \div Cardinality(shared_connections))

calculate_connection_strength(a, o) ==
    LET direct_strength == calculate_direct_strength(a, o)
        indirect_strength == calculate_indirect_strength(a, o)
        total_strength == (direct_strength * 7 + indirect_strength * 3) \div 10
        recommendation_success ==
            IF a.success_rate > Dec(5, 10) THEN Unit ELSE 0
        bonus == IF IsRecSys(a) /\ o.type = 0
                 THEN Mul(recommendation_success, Dec(2, 10)) ELSE 0
    IN  Min(Unit, total_strength + bonus)

\* Lines 439-441: drop the entries that are not above the threshold.
prune(connections) ==
    [k \in {c \in DOMAIN connections :
                connections[c].strength > connection_threshold}
        |-> connections[k]]

\* Lines 420-437 with the blend of lines 432-435 replaced by the new strength.
store_connection_overwrite(a, n, o, step_count, connection_strength) ==
    IF connection_strength > connection_threshold
    THEN IF n \notin DOMAIN a.connections
         THEN [k \in DOMAIN a.connections \cup {n} |->
                IF k = n
                THEN [strength |-> connection_strength,
                      last_interaction |-> step_count,
                      shared_preferences |-> (a.preference = o.preference),
                      interaction_count |-> 1]
                ELSE a.connections[k]]
         ELSE [a.connections EXCEPT
                ![n].strength = connection_strength,
                ![n].last_interaction = step_count,
                ![n].interaction_count = @ + 1]
    ELSE a.connections

\* Lines 420-437 with an entry that exists blended whatever the computed
\* strength (the test of line 421 guarding the creation only).
store_connection_decaying(a, n, o, step_count, connection_strength) ==
    IF n \notin DOMAIN a.connections
    THEN IF connection_strength > connection_threshold
         THEN [k \in DOMAIN a.connections \cup {n} |->
                IF k = n
                THEN [strength |-> connection_strength,
                      last_interaction |-> step_count,
                      shared_preferences |-> (a.preference = o.preference),
                      interaction_count |-> 1]
                ELSE a.connections[k]]
         ELSE a.connections
    ELSE [a.connections EXCEPT
           ![n].strength = (@ * 8 + connection_strength * 2) \div 10,
           ![n].last_interaction = step_count,
           ![n].interaction_count = @ + 1]

\* Lines 420-437: create the entry for neighbour n, or blend it, when the
\* computed strength is above the threshold.
store_connection(a, n, o, step_count, connection_strength) ==
    IF connection_strength > connection_threshold
    THEN IF n \notin DOMAIN a.connections
         THEN [k \in DOMAIN a.connections \cup {n} |->
                IF k = n
                THEN [strength |-> connection_strength,
                      last_interaction |-> step_count,
                      shared_preferences |-> (a.preference = o.preference),
                      interaction_count |-> 1]
                ELSE a.connections[k]]
         ELSE [a.connections EXCEPT
                ![n].strength = (@ * 8 + connection_strength * 2) \div 10,
                ![n].last_interaction = step_count,
                ![n].interaction_count = @ + 1]
    ELSE a.connections

\* One pass of the loop body (lines 415-441) for neighbour n of agent a.
update_connection(a, n, o, step_count) ==
    [a EXCEPT !.connections =
        prune(store_connection(a, n, o, step_count,
                               calculate_connection_strength(a, o)))]

RECURSIVE update_network_connections(_, _, _, _)
update_network_connections(ag, a, neighbors, step_count) ==
    IF neighbors = <<>> THEN a
    ELSE update_network_connections(
            ag,
            update_connection(a, Head(neighbors), ag[Head(neighbors)], step_count),
            Tail(neighbors), step_count)

----------------------------------------------------------------------------
(* Similarity engine and bot amplification: EchoChamberAgent.step 146-199 *)

MeanStrength(c) == SumOver([k \in DOMAIN c |-> c[k].strength], DOMAIN c)
                   \div Cardinality(DOMAIN c)

update_bot_cluster(ag, a, neighbors) ==
    LET similar(n) == ag[n].type = 1 /\ ag[n].preference = a.preference
    IN  [a EXCEPT !.bot_cluster_size = Len(SelectSeq(neighbors, similar)) + 1]

calculate_bot_cluster_influence(ag, a, neighbors) ==
    LET isbot(n) == ag[n].type = 1
        bots == SelectSeq(neighbors, isbot)
        influence(n) ==
            IF ag[n].preference = a.preference
            THEN Mul(Min(Dec(1, 10), ag[n].bot_cluster_size * Dec(2, 100)),
                     ag[n].amplification_power)
            ELSE 0
    IN  IF bots = <<>> THEN 0
        ELSE Min(Dec(15, 100),
                 SumSeq([k \in 1..Len(bots) |-> influence(bots[k])]))

\* The bot's side effect of the similarity computation (lines 159-162).
cluster_tracked(ag, a, neighbors) ==
    LET isbot(n) == ag[n].type = 1
    IN  IF neighbors # <<>> /\ IsBot(a) /\ Len(SelectSeq(neighbors, isbot)) > 0
        THEN update_bot_cluster(ag, a, neighbors)
        ELSE a

similarity(ag, a, neighbors) ==
    LET same(n) == ag[n].preference = a.preference
        isbot(n) == ag[n].type = 1
        samebot(n) == ag[n].type = 1 /\ ag[n].preference = a.preference
        len == Len(neighbors)
        content_similarity == (Len(SelectSeq(neighbors, same)) * Unit) \div len
        bot_neighbors == Len(SelectSeq(neighbors, isbot))
        bot_similarity == Len(SelectSeq(neighbors, samebot))
        bot_influence ==
            IF IsBot(a)
            THEN IF bot_similarity > 0
                 THEN (bot_similarity * Dec(4, 10)) \div len
                 ELSE 0
            ELSE IF a.type = 0
                 THEN IF bot_neighbors > 0
                      THEN (bot_similarity * Dec(3, 10)) \div bot_neighbors
                           + calculate_bot_cluster_influence(ag, a, neighbors)
                      ELSE 0
                 ELSE 0
        engagement_factor ==
            Min(Dec(2, 10),
                (a.likes * Dec(5, 100) + a.comments * Dec(10, 100)
                 + a.shares * Dec(15, 100)) \div len)
        initial == content_similarity \div 2 + bot_influence + engagement_factor
        blended ==
            IF DOMAIN a.connections # {}
            THEN (initial * 9 + MeanStrength(a.connections)) \div 10
            ELSE initial
    IN  IF neighbors = <<>> THEN 0 ELSE Min(Unit, blended)

\* _amplify_bot_power with the engagement counters summed without their
\* weights in line 259.
amplify_bot_power_unweighted(a) ==
    LET cluster_bonus == Min(Dec(5, 10), a.bot_cluster_size * Dec(1, 10))
        engagement_bonus ==
            Min(Dec(5, 10), (a.likes + a.comments + a.shares) * Dec(1, 100))
    IN  [a EXCEPT
          !.amplification_power = Min(3 * Unit, Unit + cluster_bonus + engagement_bonus),
          !.human_influence_radius = Min(3, 1 + (a.bot_cluster_size \div 3))]

amplify_bot_power(a) ==
    LET cluster_bonus == Min(Dec(5, 10), a.bot_cluster_size * Dec(1, 10))
        engagement_bonus ==
            Min(Dec(5, 10),
                (a.likes + a.comments * 2 + a.shares * 3) * Dec(1, 100))
    IN  [a EXCEPT
          !.amplification_power = Min(3 * Unit, Unit + cluster_bonus + engagement_bonus),
          !.human_influence_radius = Min(3, 1 + (a.bot_cluster_size \div 3))]

----------------------------------------------------------------------------
(* Engagement and homophily updater (extended model), lines 267-332.       *)
(* The two uniform draws are nondeterministic: the first is below          *)
(* engage_prob in some run iff engage_prob > 0 and is not below it in some *)
(* run iff engage_prob < 1; the second selects any of the three actions.   *)

EngagementKinds == {"like", "comment", "share"}

\* The values of the second draw explored: on each side of 0.5 and of 0.8.
Draws == {4999, 5000, 7999, 8000}

\* The tests of lines 312-318 with <= for <.
action_kind_inclusive(action_type) ==
    IF action_type <= Dec(5, 10) THEN "like"
    ELSE IF action_type <= Dec(8, 10) THEN "comment" ELSE "share"

\* Lines 312-318: the engagement the second draw selects.
action_kind(action_type) ==
    IF action_type < Dec(5, 10) THEN "like"
    ELSE IF action_type < Dec(8, 10) THEN "comment" ELSE "share"

Boost(kind) ==
    IF kind = "like" THEN Dec(5, 100)
    ELSE IF kind = "comment" THEN Dec(10, 100) ELSE Dec(15, 100)

\* The counters of lines 312-318 stepped down where the code steps them up.
Counted_down(a, kind) ==
    IF kind = "like" THEN [a EXCEPT !.likes = @ - 1]
    ELSE IF kind = "comment" THEN [a EXCEPT !.comments = @ - 1]
    ELSE [a EXCEPT !.shares = @ - 1]

Counted(a, kind) ==
    IF kind = "like" THEN [a EXCEPT !.likes = @ + 1]
    ELSE IF kind = "comment" THEN [a EXCEPT !.comments = @ + 1]
    ELSE [a EXCEPT !.shares = @ + 1]

engage_prob(a) ==
    LET base ==
            IF a.type = 0
            THEN Mul(a.engagement_rate, Unit + a.echo_chamber_strength)
            ELSE IF IsBot(a)
            THEN Mul((a.engagement_rate * 3) \div 2,
                     Unit + a.bot_cluster_size * Dec(1, 10))
            ELSE IF IsRecSys(a)
            THEN Mul(a.engagement_rate, Unit + a.success_rate)
            ELSE 0
    IN  IF DOMAIN a.connections # {}
        THEN Mul(base, Unit + MeanStrength(a.connections) \div 5)
        ELSE base

\* _process_engagement with the min(1.0, ...) of lines 323 and 329 left out.
process_engagement_unclamped(a, kind) ==
    LET c == Counted(a, kind)
        boost == Boost(kind)
    IN  IF a.type = 0
        THEN [c EXCEPT !.current_homophily =
                a.base_homophily + Mul(boost, a.echo_chamber_strength)]
        ELSE IF IsBot(a)
        THEN [c EXCEPT !.current_homophily =
                a.base_homophily
                + Mul(boost * 2, Unit + a.bot_cluster_size * Dec(1, 10))]
        ELSE c

process_engagement(a, kind) ==
    LET c == Counted(a, kind)
        boost == Boost(kind)
    IN  IF a.type = 0
        THEN [c EXCEPT !.current_homophily =
                Min(Unit, a.base_homophily + Mul(boost, a.echo_chamber_strength))]
        ELSE IF IsBot(a)
        THEN [c EXCEPT !.current_homophily =
                Min(Unit, a.base_homophily
                          + Mul(boost * 2, Unit + a.bot_cluster_size * Dec(1, 10)))]
        ELSE c

\* The agents _update_engagement_and_homophily can leave, each with the
\* outcome of the draws ("none" when the first draw is not below engage_prob).
update_engagement_and_homophily(a, similarity_fraction) ==
    LET e == [a EXCEPT !.echo_chamber_strength = similarity_fraction]
        p == engage_prob(e)
    IN  (IF p < Unit
         THEN {[agent |-> e, fired |-> "none", prob |-> p, draw |-> 0]}
         ELSE {})
        \cup {[agent |-> process_engagement(e, action_kind(action_type)),
               fired |-> action_kind(action_type), prob |-> p,
               draw |-> action_type] :
                action_type \in {d \in Draws : p > 0}}

----------------------------------------------------------------------------
(* Recommendation subsystem, lines 334-410 *)

analyze_user_preferences(a, uid, user) ==
    LET known == uid \in DOMAIN a.user_profiles
        profile ==
            IF known THEN a.user_profiles[uid]
            ELSE [preference |-> user.preference,
                  engagement_history |-> <<>>,
                  content_views |-> [c \in 0..2 |-> 0]]
        updated ==
            [profile EXCEPT
              !.content_views[user.preference] = @ + 1,
              !.engagement_history =
                  Append(@, [likes |-> user.likes, comments |-> user.comments,
                             shares |-> user.shares])]
    IN  IF ~IsRecSys(a) THEN a
        ELSE [a EXCEPT !.user_profiles =
                [k \in DOMAIN a.user_profiles \cup {uid} |->
                    IF k = uid THEN updated ELSE a.user_profiles[k]]]

\* _generate_recommendations returning the first category of the profile
\* whatever its views (line 375 without the test v == max_views).
generate_recommendations_first(a, uid, target_user) ==
    IF ~IsRecSys(a) THEN -1
    ELSE IF uid \notin DOMAIN a.user_profiles THEN target_user.preference
    ELSE 0

\* -1 stands for Python's None (an agent that is no recommender).
generate_recommendations(a, uid, target_user) ==
    IF ~IsRecSys(a) THEN -1
    ELSE IF uid \notin DOMAIN a.user_profiles THEN target_user.preference
    ELSE LET views == a.user_profiles[uid].content_views
             max_views == CHOOSE m \in {views[c] : c \in 0..2} :
                            \A c \in 0..2 : views[c] <= m
         IN  CHOOSE c \in 0..2 :
                views[c] = max_views /\ \A d \in 0..(c - 1) : views[d] # max_views

\* _update_recommendation_model with the test of line 398 negated.
update_recommendation_model_negated(a, success) ==
    IF ~IsRecSys(a) THEN a
    ELSE IF ~success
    THEN LET sr == (a.success_rate * 9) \div 10 + Dec(1, 10)
         IN  [a EXCEPT
               !.success_rate = sr,
               !.recommendation_strength =
                   Min(3 * Unit, @ + Mul(a.learning_rate, sr))]
    ELSE [a EXCEPT
           !.success_rate = (@ * 9) \div 10,
           !.recommendation_strength =
               Max(Dec(5, 10), @ - Mul(a.learning_rate, Dec(5, 10)))]

update_recommendation_model(a, success) ==
    IF ~IsRecSys(a) THEN a
    ELSE IF success
    THEN LET sr == (a.success_rate * 9) \div 10 + Dec(1, 10)
         IN  [a EXCEPT
               !.success_rate = sr,
               !.recommendation_strength =
                   Min(3 * Unit, @ + Mul(a.learning_rate, sr))]
    ELSE [a EXCEPT
           !.success_rate = (@ * 9) \div 10,
           !.recommendation_strength =
               Max(Dec(5, 10), @ - Mul(a.learning_rate, Dec(5, 10)))]

----------------------------------------------------------------------------
(* Reinforcement-learning action loop, lines 500-674 *)

\* _track_interaction followed, for a recommendation, by the call of
\* _update_recommendation_model that the code never makes.
track_interaction_learning(a, oid, other_agent, interaction_type, success) ==
    LET h == a.interaction_history
        won == [h EXCEPT !.interaction_success = @ + 1,
                         !.influenced_agents = @ \cup {oid}]
        h2 ==
            IF interaction_type = "bot_bot" /\ a.type = 1 /\ other_agent.type = 1
            THEN [(IF success THEN won ELSE h) EXCEPT !.bot_bot = @ + 1]
            ELSE IF interaction_type = "bot_human" /\ a.type = 1
                    /\ other_agent.type = 0
            THEN [(IF success THEN won ELSE h) EXCEPT !.bot_human = @ + 1]
            ELSE IF interaction_type = "recommendation" /\ IsRecSys(a)
            THEN IF success
                 THEN [h EXCEPT !.recommendation_influence = @ + 1,
                                !.influenced_agents = @ \cup {oid}]
                 ELSE h
            ELSE h
        learnt == IF interaction_type = "recommendation"
                  THEN update_recommendation_model(a, success) ELSE a
    IN  [learnt EXCEPT !.interaction_history =
            [h2 EXCEPT !.last_interaction_type = interaction_type]]

track_interaction(a, oid, other_agent, interaction_type, success) ==
    LET h == a.interaction_history
        won == [h EXCEPT !.interaction_success = @ + 1,
                         !.influenced_agents = @ \cup {oid}]
        h2 ==
            IF interaction_type = "bot_bot" /\ a.type = 1 /\ other_agent.type = 1
            THEN [(IF success THEN won ELSE h) EXCEPT !.bot_bot = @ + 1]
            ELSE IF interaction_type = "bot_human" /\ a.type = 1
                    /\ other_agent.type = 0
            THEN [(IF success THEN won ELSE h) EXCEPT !.bot_human = @ + 1]
            ELSE IF interaction_type = "recommendation" /\ IsRecSys(a)
            THEN IF success
                 THEN [h EXCEPT !.recommendation_influence = @ + 1,
                                !.influenced_agents = @ \cup {oid}]
                 ELSE h
            ELSE h
    IN  [a EXCEPT !.interaction_history =
            [h2 EXCEPT !.last_interaction_type = interaction_type]]

\* The actions _choose_action can return: any action when the draw is below
\* exploration_rate (0.2), otherwise the first action of greatest Q-value.
choose_action(a) ==
    LET acts == ActionsOf(a)
        n == Len(acts)
        best == CHOOSE i \in 1..n :
                    /\ \A j \in 1..n : a.q_values[acts[j]] <= a.q_values[acts[i]]
                    /\ \A j \in 1..(i - 1) : a.q_values[acts[j]] < a.q_values[acts[i]]
    IN  {acts[i] : i \in 1..n} \cup {acts[best]}

\* A reward-table lookup: the value, or a KeyError when the key is absent.
Lookup(table, key) ==
    IF key \in DOMAIN table
    THEN [raised |-> "none", value |-> table[key]]
    ELSE [raised |-> "KeyError", value |-> 0]

\* Result of running an action's loop: the agent, the reward so far and the
\* exception that ended it ("none" when it ran to its end).
Outcome(a, reward, raised) == [agent |-> a, reward |-> reward, raised |-> raised]

RECURSIVE bot_cluster_loop(_, _, _, _, _)
bot_cluster_loop(ag, o, similar_bots, neighbors, key) ==
    IF similar_bots = <<>> \/ o.raised # "none" THEN o
    ELSE LET bot == Head(similar_bots)
             a1 == update_bot_cluster(ag, o.agent, neighbors)
             success == FALSE    \* _update_bot_cluster returns None
             a2 == track_interaction(a1, bot, ag[bot], "bot_bot", success)
             r == Lookup(rewards(a2), key)
             o2 == IF ~success THEN Outcome(a2, o.reward, "none")
                   ELSE Outcome(a2, o.reward + r.value, r.raised)
         IN  bot_cluster_loop(ag, o2, Tail(similar_bots), neighbors, key)

RECURSIVE bot_coordinate_loop(_, _, _, _)
bot_coordinate_loop(ag, o, similar_bots, key) ==
    IF similar_bots = <<>> \/ o.raised # "none" THEN o
    ELSE LET bot == Head(similar_bots)
             a2 == track_interaction(o.agent, bot, ag[bot], "bot_bot", TRUE)
             r == Lookup(rewards(a2), key)
         IN  bot_coordinate_loop(ag, Outcome(a2, o.reward + r.value, r.raised),
                                 Tail(similar_bots), key)

RECURSIVE bot_engage_loop(_, _, _, _)
bot_engage_loop(ag, o, human_neighbors, key) ==
    IF human_neighbors = <<>> \/ o.raised # "none" THEN o
    ELSE LET human == Head(human_neighbors)
             success == ag[human].engagement_rate > ag[human].base_homophily
             a2 == track_interaction(o.agent, human, ag[human], "bot_human", success)
             r == Lookup(rewards(a2), key)
             o2 == IF ~success THEN Outcome(a2, o.reward, "none")
                   ELSE Outcome(a2, o.reward + r.value, r.raised)
         IN  bot_engage_loop(ag, o2, Tail(human_neighbors), key)

execute_bot_action(ag, a, action, neighbors) ==
    LET isai(n) == ag[n].type = 1
        similar(n) == ag[n].type = 1 /\ ag[n].preference = a.preference
        ishuman(n) == ag[n].type = 0
        start == Outcome(a, 0, "none")
    IN  IF action = "cluster"
        THEN bot_cluster_loop(ag, start, SelectSeq(neighbors, similar),
                              neighbors, "cluster_growth")
        ELSE IF action = "coordinate"
        THEN bot_coordinate_loop(ag, start, SelectSeq(neighbors, isai),
                                 "coordination_success")
        ELSE IF action = "engage"
        THEN bot_engage_loop(ag, start, SelectSeq(neighbors, ishuman),
                             "successful_influence")
        ELSE IF action = "amplify"
        THEN LET r == Lookup(rewards(a), "engagement_growth")
             IN  Outcome([a EXCEPT !.likes = @ + 1, !.comments = @ + 1,
                                   !.shares = @ + 1],
                         r.value, r.raised)
        ELSE start

RECURSIVE rec_personalize_loop(_, _, _, _)
rec_personalize_loop(ag, o, users, key) ==
    IF users = <<>> \/ o.raised # "none" THEN o
    ELSE LET user == Head(users)
             a1 == analyze_user_preferences(o.agent, user, ag[user])
             success == ag[user].engagement_rate > ag[user].base_homophily
             a2 == track_interaction(a1, user, ag[user], "recommendation", success)
             r == Lookup(rewards(a2), key)
             o2 == IF ~success THEN Outcome(a2, o.reward, "none")
                   ELSE Outcome(a2, o.reward + r.value, r.raised)
         IN  rec_personalize_loop(ag, o2, Tail(users), key)

RECURSIVE rec_explore_loop(_, _, _, _)
rec_explore_loop(ag, o, users, key) ==
    IF users = <<>> \/ o.raised # "none" THEN o
    ELSE LET user == Head(users)
             recommended_content == generate_recommendations(o.agent, user, ag[user])
             success == ag[user].engagement_rate > ag[user].base_homophily
             a2 == track_interaction(o.agent, user, ag[user], "recommendation", success)
             r == Lookup(rewards(a2), key)
             o2 == IF recommended_content = ag[user].preference THEN o
                   ELSE IF ~success THEN Outcome(a2, o.reward, "none")
                   ELSE Outcome(a2, o.reward + r.value, r.raised)
         IN  rec_explore_loop(ag, o2, Tail(users), key)

RECURSIVE rec_exploit_loop(_, _, _, _)
rec_exploit_loop(ag, o, users, key) ==
    IF users = <<>> \/ o.raised # "none" THEN o
    ELSE LET user == Head(users)
             recommended_content == generate_recommendations(o.agent, user, ag[user])
             success == recommended_content = ag[user].preference
             a2 == track_interaction(o.agent, user, ag[user], "recommendation", success)
             r == Lookup(rewards(a2), key)
             o2 == IF ~success THEN Outcome(a2, o.reward, "none")
                   ELSE Outcome(a2, o.reward + r.value, r.raised)
         IN  rec_exploit_loop(ag, o2, Tail(users), key)

\* _execute_recommendation_action with 'personalize' judged as 'exploit' is,
\* by the match of category and preference (line 619 for line 600).
execute_recommendation_action_by_match(ag, a, action, neighbors) ==
    LET ishuman(n) == ag[n].type = 0
        users == SelectSeq(neighbors, ishuman)
        start == Outcome(a, 0, "none")
    IN  IF action = "personalize"
        THEN rec_exploit_loop(ag, start, users, "preference_match")
        ELSE IF action = "explore"
        THEN rec_explore_loop(ag, start, users, "user_engagement")
        ELSE IF action = "exploit"
        THEN rec_exploit_loop(ag, start, users, "recommendation_success")
        ELSE start

execute_recommendation_action(ag, a, action, neighbors) ==
    LET ishuman(n) == ag[n].type = 0
        users == SelectSeq(neighbors, ishuman)
        start == Outcome(a, 0, "none")
    IN  IF action = "personalize"
        THEN rec_personalize_loop(ag, start, users, "preference_match")
        ELSE IF action = "explore"
        THEN rec_explore_loop(ag, start, users, "user_engagement")
        ELSE IF action = "exploit"
        THEN rec_exploit_loop(ag, start, users, "recommendation_success")
        ELSE start

execute_action(ag, a, action, neighbors) ==
    IF a.ai_subtype = 0 THEN execute_bot_action(ag, a, action, neighbors)
    ELSE IF a.ai_subtype = 1
    THEN execute_recommendation_action(ag, a, action, neighbors)
    ELSE Outcome(a, 0, "none")

update_q_values(a, action, reward) ==
    LET acts == ActionsOf(a)
        qs == {a.q_values[acts[i]] : i \in 1..Len(acts)}
        max_future_q == CHOOSE m \in qs : \A q \in qs : q <= m
        old_q == a.q_values[action]
        new_q == old_q + Mul(a.learning_rate,
                             reward + Mul(a.discount_factor, max_future_q) - old_q)
    IN  [a EXCEPT
          !.q_values[action] = new_q,
          !.action_history =
              Append(@, [action |-> action, reward |-> reward, q_value |-> new_q])]

----------------------------------------------------------------------------
(* EchoChamberAgent.step, lines 138-220, up to the draws of the engagement *)
(* updater and the choice of the empty cell.                               *)

\* The comparison of lines 204 (and schelling/agents.py 81) with <= for <.
unhappy_or_equal(similarity_fraction, a) ==
    similarity_fraction <= a.current_homophily

\* The same comparison turned round.
unhappy_inverted(similarity_fraction, a) ==
    similarity_fraction > a.current_homophily

unhappy(similarity_fraction, a) == similarity_fraction < a.current_homophily

\* Lines 145-199, once the connections are refreshed: the bot's cluster
\* tracking and the similarity.
perceived(ag, a, neighbors) ==
    [agent |-> a, neighbors |-> neighbors,
     similarity_fraction |-> similarity(ag, a, neighbors)]

\* Lines 138-199 with the similarity taken before the refresh of line 143.
perceive_before_refresh(ag, a, neighbors, step_count) ==
    [perceived(ag,
               cluster_tracked(ag,
                   update_network_connections(ag, a, neighbors, step_count),
                   neighbors),
               neighbors)
     EXCEPT !.similarity_fraction = similarity(ag, a, neighbors)]

\* Lines 138-199 for agent a.
perceive(ag, a, neighbors, step_count) ==
    perceived(ag,
              cluster_tracked(ag,
                  update_network_connections(ag, a, neighbors, step_count),
                  neighbors),
              neighbors)

Perceived(ag, i, step_count) ==
    perceive(ag, ag[i], get_neighbors(ag, ag[i].pos), step_count)

\* Lines 215-217 without the test of the cluster size.
amplified_always(a) ==
    IF a.ai_subtype = 0 THEN amplify_bot_power(a) ELSE a

\* Lines 215-217: a social bot in a cluster gets its power boost.
amplified(a) ==
    IF a.ai_subtype = 0 /\ a.bot_cluster_size > 1 THEN amplify_bot_power(a) ELSE a

\* Lines 213-217 after the action's outcome o, unless the action raised.
after_action(o, action) ==
    IF o.raised # "none" THEN o
    ELSE Outcome(amplified(update_q_values(o.agent, action, o.reward)),
                 o.reward, "none")

\* Lines 211-217 for an AI agent and a chosen action.
ai_actions(ag, a, action, neighbors) ==
    after_action(execute_action(ag, a, action, neighbors), action)

----------------------------------------------------------------------------
(* The extended model: EchoChamber.__init__ and EchoChamber.step *)

plateau_tolerance == Dec(2, 100)

plateau_required_steps == 5

Ids == DOMAIN agents

NoStep == [op |-> "none", id |-> 0, neighbors |-> <<>>, similarity_fraction |-> 0,
           threshold |-> 0, fired |-> "none", action |-> "none",
           prob |-> 0, draw |-> 0]

NewModel(variant, max_steps) ==
    [variant |-> variant, happy |-> 0, step_count |-> 0, max_steps |-> max_steps,
     prev_happy_ratio |-> -1,           \* -1 stands for None
     happy_plateau_counter |-> 0, running |-> TRUE, pc |-> "idle",
     \* the datacollector's column of m.happy, one entry per collect; the
     \* constructor collects once
     happy_log |-> <<0>>]

\* Populations the constructor can build: agent k is the k-th occupied cell
\* in coordinate order; every human has base homophily hh and every AI agent
\* ah; the engagement rates are drawn per agent.
Population(n, types, prefs, cells, hh, ah, rates) ==
    [k \in 1..n |->
        NewAgent(IF types[k] = "human" THEN 0 ELSE 1, prefs[k],
                 IF types[k] = "human" THEN hh ELSE ah, rates[k],
                 IF types[k] = "recsys" THEN 1 ELSE 0, cells[k])]

\* self.happy = 0, then shuffle_do("step") starts its pass.
begin_tick(bound) ==
    /\ err = "none"
    /\ model.pc = "idle" /\ model.running
    /\ model.step_count < bound
    /\ model' = [model EXCEPT !.happy = 0, !.pc = "stepping"]
    /\ todo' = Ids
    /\ last' = [NoStep EXCEPT !.op = "begin"]
    /\ UNCHANGED <<agents, err>>

BeginTick == model.variant = "extended" /\ begin_tick(MaxTicks)

StepRecord(op, i, p, fired, action, prob, draw) ==
    [op |-> op, id |-> i, neighbors |-> p.neighbors,
     similarity_fraction |-> p.similarity_fraction,
     threshold |-> p.agent.current_homophily,
     fired |-> fired, action |-> action,
     \* the engage_prob the draw of line 299 was compared with
     prob |-> prob,
     \* the second draw, of line 311, when the engagement fired
     draw |-> draw]

\* Lines 202-207 and 220 for a human whose perception is p, with the
\* connection update storing its entry in each neighbour's map as well.
human_step_mirrored(i, p, moves) ==
    \E dest \in (IF moves THEN EmptyCells(agents) ELSE {p.agent.pos}) :
    \E e \in update_engagement_and_homophily(
                [p.agent EXCEPT !.pos = dest], p.similarity_fraction) :
        /\ agents' = [n \in DOMAIN agents |->
                        IF n = i THEN e.agent
                        ELSE IF \E k \in 1..Len(p.neighbors) : p.neighbors[k] = n
                        THEN update_connection(agents[n], i, agents[i],
                                               model.step_count)
                        ELSE agents[n]]
        /\ model' = [model EXCEPT !.happy = IF moves THEN @ ELSE @ + 1]
        /\ last' = StepRecord("step", i, p, e.fired, "none", e.prob, e.draw)

\* Lines 202-207 and 220 for a human whose perception is p.
human_step(i, p, moves) ==
    \E dest \in (IF moves THEN EmptyCells(agents) ELSE {p.agent.pos}) :
    \E e \in update_engagement_and_homophily(
                [p.agent EXCEPT !.pos = dest], p.similarity_fraction) :
        /\ agents' = [agents EXCEPT ![i] = e.agent]
        /\ model' = [model EXCEPT !.happy = IF moves THEN @ ELSE @ + 1]
        /\ last' = StepRecord("step", i, p, e.fired, "none", e.prob, e.draw)

HumanStep(i) ==
    /\ err = "none" /\ model.variant = "extended" /\ model.pc = "stepping"
    /\ i \in todo /\ agents[i].type = 0
    /\ LET p == Perceived(agents, i, model.step_count)
       IN  human_step(i, p, unhappy(p.similarity_fraction, p.agent))
    /\ todo' = todo \ {i}
    /\ UNCHANGED err

\* Line 220 for an AI agent whose action left the outcome o.
ai_finish(i, p, action, o) ==
    /\ o.raised = "none"
    /\ \E e \in update_engagement_and_homophily(o.agent, p.similarity_fraction) :
          /\ agents' = [agents EXCEPT ![i] = e.agent]
          /\ last' = StepRecord("step", i, p, e.fired, action, e.prob, e.draw)

\* The chosen action raised: the exception leaves EchoChamber.step, with
\* the agent as the action left it and the rest of the tick not run.
ai_raise(i, p, action, o) ==
    /\ o.raised # "none"
    /\ agents' = [agents EXCEPT ![i] = o.agent]
    /\ err' = o.raised
    /\ last' = StepRecord("raise", i, p, "none", action, 0, 0)

ai_step(i, p) ==
    \E action \in choose_action(p.agent) :
        ai_finish(i, p, action,
                  ai_actions(agents, p.agent, action, p.neighbors))

ai_step_raising(i, p) ==
    \E action \in choose_action(p.agent) :
        ai_raise(i, p, action,
                 ai_actions(agents, p.agent, action, p.neighbors))

\* The step of an AI agent counted happy as a human that stays is (line 207
\* run in the AI branch).
AIStep_counted(i) ==
    /\ err = "none" /\ model.variant = "extended" /\ model.pc = "stepping"
    /\ i \in todo /\ agents[i].type = 1
    /\ ai_step(i, Perceived(agents, i, model.step_count))
    /\ todo' = todo \ {i}
    /\ model' = [model EXCEPT !.happy = @ + 1]
    /\ UNCHANGED err

AIStep(i) ==
    /\ err = "none" /\ model.variant = "extended" /\ model.pc = "stepping"
    /\ i \in todo /\ agents[i].type = 1
    /\ ai_step(i, Perceived(agents, i, model.step_count))
    /\ todo' = todo \ {i}
    /\ UNCHANGED <<model, err>>

AIRaise(i) ==
    /\ err = "none" /\ model.variant = "extended" /\ model.pc = "stepping"
    /\ i \in todo /\ agents[i].type = 1
    /\ ai_step_raising(i, Perceived(agents, i, model.step_count))
    /\ UNCHANGED <<model, todo>>

\* EchoChamber.step without the reset of line 221.
plateau_update_no_reset(m, n) ==
    LET happy_ratio == IF n > 0 THEN (m.happy * Unit) \div n ELSE 0
        change == Abs(happy_ratio - m.prev_happy_ratio)
        counter == IF m.prev_happy_ratio # -1 /\ change < plateau_tolerance
                   THEN m.happy_plateau_counter + 1
                   ELSE m.happy_plateau_counter
    IN  [m EXCEPT !.happy_log = Append(@, m.happy),
                  !.step_count = @ + 1,
                  !.prev_happy_ratio = happy_ratio,
                  !.happy_plateau_counter = counter,
                  !.running = counter < plateau_required_steps,
                  !.pc = "idle"]

\* Lines 209-225, once every agent has been stepped.
plateau_update(m, n) ==
    LET happy_ratio == IF n > 0 THEN (m.happy * Unit) \div n ELSE 0
        change == Abs(happy_ratio - m.prev_happy_ratio)
        counter == IF m.prev_happy_ratio # -1
                   THEN IF change < plateau_tolerance
                        THEN m.happy_plateau_counter + 1 ELSE 0
                   ELSE m.happy_plateau_counter
    IN  [m EXCEPT !.happy_log = Append(@, m.happy),
                  !.step_count = @ + 1,
                  !.prev_happy_ratio = happy_ratio,
                  !.happy_plateau_counter = counter,
                  !.running = counter < plateau_required_steps,
                  !.pc = "idle"]

EndTick ==
    /\ err = "none" /\ model.variant = "extended"
    /\ model.pc = "stepping" /\ todo = {}
    /\ model' = plateau_update(model, Cardinality(Ids))
    /\ last' = [NoStep EXCEPT !.op = "end"]
    /\ UNCHANGED <<agents, todo, err>>

\* The populations explored: agents in coordinate order of their cells.
Cfg(types, prefs, cells, hh, ah, rates) ==
    Population(Len(types), types, prefs, cells, hh, ah, rates)

Populations ==
    {   \* a human beside a bot; the human engages and can be influenced
        Cfg(<<"human", "bot">>, <<0, 0>>, <<0, 1>>, Dec(4, 10), Dec(4, 10),
            <<Dec(5, 10), 0>>),
        \* a human beside a bot of another preference; the bot engages
        Cfg(<<"human", "bot">>, <<0, 1>>, <<0, 1>>, Dec(4, 10), Dec(9, 10),
            <<0, Dec(5, 10)>>),
        \* a human and a bot apart: both start with no neighbour
        Cfg(<<"human", "bot">>, <<0, 0>>, <<0, 2>>, Dec(4, 10), Dec(4, 10),
            <<Dec(5, 10), 0>>),
        \* two humans apart with base homophily 0
        Cfg(<<"human", "human">>, <<0, 1>>, <<0, 2>>, 0, Dec(4, 10),
            <<Dec(3, 10), Dec(3, 10)>>),
        \* two bots of homophily 1.0 side by side, and a bot beside a recommender
        Cfg(<<"bot", "bot">>, <<0, 0>>, <<0, 1>>, Dec(4, 10), Unit,
            <<0, 0>>),
        Cfg(<<"bot", "recsys">>, <<1, 1>>, <<0, 1>>, Dec(4, 10), Dec(4, 10),
            <<0, 0>>),
        \* a human beside a recommender
        Cfg(<<"human", "recsys">>, <<2, 2>>, <<0, 1>>, Dec(4, 10), Dec(4, 10),
            <<Dec(5, 10), 0>>),
        \* a human that never engages beside a recommender
        Cfg(<<"human", "recsys">>, <<1, 1>>, <<0, 1>>, Dec(4, 10), Dec(4, 10),
            <<0, 0>>),
        \* three humans in a row, the middle one of another preference
        Cfg(<<"human", "human", "human">>, <<0, 1, 0>>, <<0, 1, 2>>, Dec(4, 10),
            Dec(4, 10), <<0, 0, 0>>),
        \* two bots side by side next to a human
        Cfg(<<"bot", "bot", "human">>, <<0, 0, 0>>, <<0, 1, 2>>, Dec(4, 10),
            Dec(4, 10), <<0, 0, 0>>),
        \* two humans side by side, alike, that never engage
        Cfg(<<"human", "human">>, <<0, 0>>, <<0, 1>>, Dec(4, 10), Dec(4, 10),
            <<0, 0>>),
        \* two humans side by side, alike, of base homophily 0.45: an
        \* engagement of the first lifts its threshold above its similarity
        Cfg(<<"human", "human">>, <<0, 0>>, <<0, 1>>, Dec(45, 100), Dec(4, 10),
            <<Dec(3, 10), 0>>)
    }

InitEchoChamber ==
    /\ agents \in Populations
    /\ model = NewModel("extended", 0)
    /\ todo = {}
    /\ err = "none"
    /\ last = NoStep

----------------------------------------------------------------------------
(* The plateau detector over longer runs: the same tick, more of them, on  *)
(* populations of humans that do not engage.                               *)

PlateauPopulations ==
    {Cfg(<<"human", "human">>, prefs, cells, hh, Dec(4, 10), <<0, 0>>) :
        prefs \in {<<0, 0>>, <<0, 1>>}, cells \in {<<0, 1>>, <<0, 2>>},
        hh \in {0, Dec(4, 10)}}

InitPlateau ==
    /\ agents \in PlateauPopulations
    /\ model = NewModel("extended", 0)
    /\ todo = {}
    /\ err = "none"
    /\ last = NoStep

PlateauBeginTick == model.variant = "extended" /\ begin_tick(MaxPlateauTicks)

NextPlateau ==
    \/ PlateauBeginTick
    \/ \E i \in Ids : HumanStep(i)
    \/ EndTick

SpecPlateau == InitPlateau /\ [][NextPlateau]_vars

----------------------------------------------------------------------------
(* The baseline model: SchellingAgent.step and Echochamber.step *)

\* The similarity of lines 45-75 with a content weight of 30%.
schelling_similarity_content_30(ag, a, neighbors) ==
    LET same(n) == ag[n].preference = a.preference
        isbot(n) == ag[n].type = 1
        samebot(n) == ag[n].type = 1 /\ ag[n].preference = a.preference
        len == Len(neighbors)
        content_similarity == (Len(SelectSeq(neighbors, same)) * Unit) \div len
        bot_neighbors == Len(SelectSeq(neighbors, isbot))
        bot_similarity == Len(SelectSeq(neighbors, samebot))
        bot_influence ==
            IF a.type = 0 /\ bot_neighbors > 0
            THEN (bot_similarity * Dec(3, 10)) \div bot_neighbors
            ELSE 0
        engagement_factor ==
            Min(Dec(2, 10),
                (a.likes * Dec(5, 100) + a.comments * Dec(10, 100)
                 + a.shares * Dec(15, 100)) \div len)
    IN  IF neighbors = <<>> THEN 0
        ELSE Min(Unit, Mul(content_similarity, Dec(3, 10)) + bot_influence + engagement_factor)

schelling_similarity(ag, a, neighbors) ==
    LET same(n) == ag[n].preference = a.preference
        isbot(n) == ag[n].type = 1
        samebot(n) == ag[n].type = 1 /\ ag[n].preference = a.preference
        len == Len(neighbors)
        content_similarity == (Len(SelectSeq(neighbors, same)) * Unit) \div len
        bot_neighbors == Len(SelectSeq(neighbors, isbot))
        bot_similarity == Len(SelectSeq(neighbors, samebot))
        bot_influence ==
            IF a.type = 0 /\ bot_neighbors > 0
            THEN (bot_similarity * Dec(3, 10)) \div bot_neighbors
            ELSE 0
        engagement_factor ==
            Min(Dec(2, 10),
                (a.likes * Dec(5, 100) + a.comments * Dec(10, 100)
                 + a.shares * Dec(15, 100)) \div len)
    IN  IF neighbors = <<>> THEN 0
        ELSE Min(Unit, content_similarity \div 2 + bot_influence + engagement_factor)

schelling_engage_prob(a) ==
    IF a.type = 0
    THEN Mul(a.engagement_rate, Unit + a.echo_chamber_strength)
    ELSE (a.engagement_rate * 3) \div 2

schelling_engage(a, kind) ==
    LET c == Counted(a, kind)
        boost == Boost(kind)
    IN  IF a.type = 0
        THEN [c EXCEPT !.current_homophily =
                Min(Unit, a.base_homophily + Mul(boost, a.echo_chamber_strength))]
        ELSE [c EXCEPT !.current_homophily =
                Min(Unit, a.base_homophily + boost * 2)]

schelling_update_engagement_and_homophily(a, similarity_fraction) ==
    LET e == [a EXCEPT !.echo_chamber_strength = similarity_fraction]
        p == schelling_engage_prob(e)
    IN  (IF p < Unit
         THEN {[agent |-> e, fired |-> "none", prob |-> p, draw |-> 0]}
         ELSE {})
        \cup {[agent |-> schelling_engage(e, action_kind(action_type)),
               fired |-> action_kind(action_type), prob |-> p,
               draw |-> action_type] :
                action_type \in {d \in Draws : p > 0}}

\* The "ai_cluster_pct" reporter reads bot_cluster_size, which a
\* SchellingAgent does not have, of the first agent of type 1.
schelling_collect_raises(ag) == \E i \in DOMAIN ag : ag[i].type = 1

\* The driver steps the model while it is running; the bound is above every
\* max_steps, so the model's own stopping rule is what ends a run.
SchellingBeginTick == model.variant = "baseline" /\ begin_tick(MaxSteps + 1)

SchellingStep(i) ==
    /\ err = "none" /\ model.variant = "baseline" /\ model.pc = "stepping"
    /\ i \in todo
    /\ LET neighbors == get_neighbors(agents, agents[i].pos)
           sim == schelling_similarity(agents, agents[i], neighbors)
       IN  \E e \in schelling_update_engagement_and_homophily(agents[i], sim) :
           LET moves == unhappy(sim, e.agent)
           IN  \E dest \in (IF moves THEN EmptyCells(agents) ELSE {e.agent.pos}) :
               /\ agents' = [agents EXCEPT ![i] = [e.agent EXCEPT !.pos = dest]]
               /\ model' = [model EXCEPT !.happy = IF moves THEN @ ELSE @ + 1]
               /\ last' = [op |-> "step", id |-> i, neighbors |-> neighbors,
                           similarity_fraction |-> sim,
                           threshold |-> e.agent.current_homophily,
                           fired |-> e.fired, action |-> "none",
                           prob |-> e.prob, draw |-> e.draw]
    /\ todo' = todo \ {i}
    /\ UNCHANGED err

\* Echochamber.step with step_count <= max_steps in line 126.
schelling_end_inclusive(m, n) ==
    [m EXCEPT !.happy_log = Append(@, m.happy),
              !.step_count = @ + 1,
              !.running = m.happy < n /\ (m.step_count + 1) <= m.max_steps,
              !.pc = "idle"]

schelling_end(m, n) ==
    [m EXCEPT !.happy_log = Append(@, m.happy),
              !.step_count = @ + 1,
              !.running = m.happy < n /\ (m.step_count + 1) < m.max_steps,
              !.pc = "idle"]

SchellingEndTick ==
    /\ err = "none" /\ model.variant = "baseline"
    /\ model.pc = "stepping" /\ todo = {}
    /\ IF schelling_collect_raises(agents)
       THEN err' = "AttributeError" /\ UNCHANGED model
       ELSE err' = err /\ model' = schelling_end(model, Cardinality(Ids))
    /\ last' = [NoStep EXCEPT !.op = "end"]
    /\ UNCHANGED <<agents, todo>>

SchellingPopulations ==
    {   \* two humans side by side, alike, of base homophily 0.45: happy
        \* unless an engagement lifts the threshold above the similarity
        Cfg(<<"human", "human">>, <<0, 0>>, <<0, 1>>, Dec(45, 100), Dec(4, 10),
            <<Dec(3, 10), 0>>),
        \* two humans that differ: never happy, the run uses its budget
        Cfg(<<"human", "human">>, <<0, 1>>, <<0, 2>>, Dec(4, 10), Dec(4, 10),
            <<0, 0>>),
        \* two humans alike and apart: they move until they meet
        Cfg(<<"human", "human">>, <<0, 0>>, <<0, 2>>, Dec(4, 10), Dec(4, 10),
            <<0, 0>>),
        \* base homophily 0, side by side and apart
        Cfg(<<"human", "human">>, <<0, 1>>, <<0, 1>>, 0, Dec(4, 10),
            <<Dec(3, 10), 0>>),
        Cfg(<<"human", "human">>, <<0, 1>>, <<0, 2>>, 0, Dec(4, 10),
            <<0, 0>>),
        \* a population with an AI agent
        Cfg(<<"human", "bot">>, <<0, 0>>, <<0, 1>>, Dec(4, 10), Dec(4, 10),
            <<Dec(3, 10), Dec(5, 10)>>)
    }

\* Echochamber.__init__ ends with datacollector.collect (line 109).
InitSchelling ==
    /\ agents \in SchellingPopulations
    /\ \E max_steps \in 1..MaxSteps : model = NewModel("baseline", max_steps)
    /\ todo = {}
    /\ err = IF schelling_collect_raises(agents) THEN "AttributeError" ELSE "none"
    /\ last = NoStep

----------------------------------------------------------------------------
(* The two models of the repository *)

NextSchelling ==
    \/ SchellingBeginTick
    \/ \E i \in Ids : SchellingStep(i)
    \/ SchellingEndTick

\* The baseline model on its own; its driver keeps stepping it while it is
\* running.
SpecSchelling ==
    InitSchelling /\ [][NextSchelling]_vars /\ WF_vars(NextSchelling)

Init == InitEchoChamber \/ InitSchelling

Next ==
    \/ BeginTick
    \/ \E i \in Ids : HumanStep(i)
    \/ \E i \in Ids : AIStep(i)
    \/ \E i \in Ids : AIRaise(i)
    \/ EndTick
    \/ SchellingBeginTick
    \/ \E i \in Ids : SchellingStep(i)
    \/ SchellingEndTick

Spec == Init /\ [][Next]_vars

----------------------------------------------------------------------------
(* The recommendation model's learning rule on its own: a recommender with *)
(* any success_rate, updated by any run of successes and failures.         *)

RatesGrid == {(k * Unit) \div 8 : k \in 0..8}

InitRec ==
    /\ \E sr \in RatesGrid :
          agents = [k \in {1} |->
                      [NewAgent(1, 0, Dec(4, 10), Dec(5, 10), 1, 0)
                          EXCEPT !.success_rate = sr]]
    /\ model = NewModel("recommender", 0)
    /\ todo = {}
    /\ err = "none"
    /\ last = NoStep

RecUpdate(success) ==
    /\ model.variant = "recommender"
    /\ model.step_count < MaxRuns
    /\ agents' = [agents EXCEPT ![1] = update_recommendation_model(@, success)]
    /\ model' = [model EXCEPT !.step_count = @ + 1]
    /\ last' = [NoStep EXCEPT !.op = IF success THEN "success" ELSE "failure"]
    /\ UNCHANGED <<todo, err>>

NextRec == \E success \in BOOLEAN : RecUpdate(success)

SpecRec == InitRec /\ [][NextRec]_vars

----------------------------------------------------------------------------
(* Construction from a malformed configuration: EchoChamber.__init__ stores *)
(* its parameters and builds the agents without looking at their values,   *)
(* here a human_homophily of -0.1.                                          *)

MalformedPopulations ==
    {Cfg(<<"human", "human">>, prefs, <<0, 1>>, 0 - Dec(1, 10), Dec(4, 10),
         <<Dec(3, 10), Dec(3, 10)>>) : prefs \in {<<0, 0>>, <<0, 1>>}}

InitMalformed ==
    /\ agents \in MalformedPopulations
    /\ model = NewModel("extended", 0)
    /\ todo = {}
    /\ err = "none"
    /\ last = NoStep

NextMalformed ==
    \/ BeginTick
    \/ \E i \in Ids : HumanStep(i)
    \/ EndTick

SpecMalformed == InitMalformed /\ [][NextMalformed]_vars

----------------------------------------------------------------------------
(* The connection network among three agents that are all neighbours of    *)
(* one another, as in a block of a two-dimensional Moore neighbourhood     *)
(* (the one-row grid above never puts two neighbours of an agent side by   *)
(* side). Every step is EchoChamberAgent.step of a human that stays.       *)

\* The neighbours of agent i in the block: every other agent.
Block(i) ==
    LET other(n) == n # i
    IN  SelectSeq([k \in 1..Cardinality(Ids) |-> k], other)

\* The record of the last step, with the agents that have refreshed their
\* connections since a counter last changed (settled), whether this step's
\* refresh was such a second run (rerun) and the connections before it.
BlockRecord(r, settled, rerun, before) ==
    [op |-> r.op, id |-> r.id, neighbors |-> r.neighbors,
     similarity_fraction |-> r.similarity_fraction, threshold |-> r.threshold,
     fired |-> r.fired, action |-> r.action, prob |-> r.prob, draw |-> r.draw,
     settled |-> settled, rerun |-> rerun, before |-> before]

BlockPopulations ==
    {   \* three humans alike; the first engages
        Cfg(<<"human", "human", "human">>, <<0, 0, 0>>, <<0, 1, 2>>, Dec(4, 10),
            Dec(4, 10), <<Dec(3, 10), 0, 0>>),
        \* the third of another preference, nobody ever unhappy
        Cfg(<<"human", "human", "human">>, <<0, 0, 1>>, <<0, 1, 2>>, 0,
            Dec(4, 10), <<Dec(3, 10), 0, 0>>)
    }

InitBlock ==
    /\ agents \in BlockPopulations
    /\ model = NewModel("extended", 0)
    /\ todo = {}
    /\ err = "none"
    /\ last = BlockRecord(NoStep, {}, FALSE, NoFn)

BlockBeginTick ==
    /\ model.pc = "idle" /\ model.running
    /\ model.step_count < MaxBlockTicks
    /\ model' = [model EXCEPT !.happy = 0, !.pc = "stepping"]
    /\ todo' = Ids
    /\ last' = [last EXCEPT !.op = "begin"]
    /\ UNCHANGED <<agents, err>>

\* Lines 138-220 for a human that is not below its threshold.
block_step(i, p) ==
    /\ ~unhappy(p.similarity_fraction, p.agent)
    /\ \E e \in update_engagement_and_homophily(p.agent, p.similarity_fraction) :
          /\ agents' = [agents EXCEPT ![i] = e.agent]
          /\ last' = BlockRecord(
                        StepRecord("step", i, p, e.fired, "none", e.prob, e.draw),
                        IF e.fired = "none" THEN last.settled \cup {i} ELSE {},
                        i \in last.settled, agents[i].connections)

BlockStep(i) ==
    /\ model.pc = "stepping" /\ i \in todo
    /\ block_step(i, perceive(agents, agents[i], Block(i), model.step_count))
    /\ model' = [model EXCEPT !.happy = @ + 1]
    /\ todo' = todo \ {i}
    /\ UNCHANGED err

BlockEndTick ==
    /\ model.pc = "stepping" /\ todo = {}
    /\ model' = plateau_update(model, Cardinality(Ids))
    /\ last' = [last EXCEPT !.op = "end"]
    /\ UNCHANGED <<agents, todo, err>>

NextBlock == BlockBeginTick \/ (\E i \in Ids : BlockStep(i)) \/ BlockEndTick

SpecBlock == InitBlock /\ [][NextBlock]_vars

----------------------------------------------------------------------------
(* The connection update on its own: _update_network_connections applied   *)
(* to agents whose counters are drawn from a grid, over any part of the    *)
(* block as the neighbour list, up to MaxConnRuns times.                   *)

\* Like counts of the third agent: 18 and 19 put the strength of a pair of
\* different preferences on each side of the threshold.
LikesGrid == {0, 18, 19}

ConnPopulations ==
    {[Cfg(<<"human", "human", "human">>, prefs, <<0, 1, 2>>, Dec(4, 10),
          Dec(4, 10), <<0, 0, 0>>) EXCEPT ![3].likes = likes] :
        prefs \in {<<0, 0, 0>>, <<0, 0, 1>>}, likes \in LikesGrid}

\* The neighbour lists given to agent i: one agent, or the block.
NeighborLists(i) ==
    {Block(i)} \cup {<<Block(i)[k]>> : k \in 1..Len(Block(i))}

\* The strength agent i computes for the k-th of neighbors (line 418),
\* the earlier ones handled.
RecomputedFor(i, neighbors, k) ==
    calculate_connection_strength(
        update_network_connections(agents, agents[i],
                                   SubSeq(neighbors, 1, k - 1), model.step_count),
        agents[neighbors[k]])

ConnRecord(op, i, neighbors, before, totals) ==
    [op |-> op, id |-> i, neighbors |-> neighbors, before |-> before,
     totals |-> totals]

InitConn ==
    /\ agents \in ConnPopulations
    /\ model = NewModel("connections", 0)
    /\ todo = {}
    /\ err = "none"
    /\ last = ConnRecord("none", 0, <<>>, NoFn, <<>>)

ConnRefresh(i, neighbors) ==
    /\ model.variant = "connections"
    /\ model.step_count < MaxConnRuns
    /\ agents' = [agents EXCEPT ![i] =
                    update_network_connections(agents, @, neighbors,
                                               model.step_count)]
    /\ model' = [model EXCEPT !.step_count = @ + 1]
    /\ last' = ConnRecord("refresh", i, neighbors, agents[i].connections,
                          [k \in 1..Len(neighbors) |->
                              RecomputedFor(i, neighbors, k)])
    /\ UNCHANGED <<todo, err>>

\* An engagement of the first agent between two updates (lines 312-318).
ConnEngage(kind) ==
    /\ model.variant = "connections"
    /\ model.step_count < MaxConnRuns
    /\ agents' = [agents EXCEPT ![1] = Counted(@, kind)]
    /\ model' = [model EXCEPT !.step_count = @ + 1]
    /\ last' = ConnRecord("engage", 1, <<>>, agents[1].connections, <<>>)
    /\ UNCHANGED <<todo, err>>

NextConn ==
    \/ \E i \in Ids : \E neighbors \in NeighborLists(i) : ConnRefresh(i, neighbors)
    \/ ConnEngage("like")

SpecConn == InitConn /\ [][NextConn]_vars

----------------------------------------------------------------------------
(* Properties *)

\* C1: in both models every agent's current_homophily and
\* echo_chamber_strength lie in [0, 1] in every state.
C1_ClampedToUnitInterval ==
    \A i \in Ids :
        /\ 0 <= agents[i].current_homophily
        /\ agents[i].current_homophily <= Unit
        /\ 0 <= agents[i].echo_chamber_strength
        /\ agents[i].echo_chamber_strength <= Unit

\* An engagement whose boost would carry current_homophily past 1 has been
\* processed: the agent sits at 1.0 although a comment or a share adds at
\* least 0.2 to its base homophily of 0.9.
C1_Witness ==
    /\ last.op = "step" /\ last.fired \in {"comment", "share"}
    /\ agents[last.id].base_homophily = Dec(9, 10)
    /\ agents[last.id].current_homophily = Unit
    /\ \E i \in Ids : agents[i].echo_chamber_strength > 0

\* C2: every connection an agent stores has a strength above 0.3, at every
\* state of a run (entries are created only above the threshold and are
\* deleted as soon as an update leaves them at or below it).
C2_StoredConnectionsAboveThreshold ==
    \A i \in Ids : \A n \in DOMAIN agents[i].connections :
        agents[i].connections[n].strength > Dec(3, 10)

\* A stored connection has been updated again (blended with a new strength).
C2_Witness ==
    \E i \in Ids : \E n \in DOMAIN agents[i].connections :
        /\ agents[i].connections[n].interaction_count >= 2
        /\ agents[i].connections[n].strength > Dec(3, 10)

\* Agent i's step has run to its end in this transition.
Stepped(i) == i \in todo /\ i \notin todo'

\* The agents whose step has a move decision: every agent of the baseline
\* model, the humans of the extended model.
Decides(i) == model.variant = "baseline" \/ agents[i].type = 0

EmptyNeighbourhoodRule(i, decides) ==
    (Stepped(i) /\ last'.neighbors = <<>>) =>
        /\ last'.similarity_fraction = 0
        /\ IF decides /\ last'.threshold # 0
           THEN /\ agents'[i].pos # agents[i].pos
                /\ agents'[i].pos \in EmptyCells(agents)
           ELSE agents'[i].pos = agents[i].pos

\* C3 as stated: in a step of any agent, of any role, whose neighbour set is
\* empty the similarity fraction is 0 and the agent relocates to an empty
\* cell unless its current_homophily is 0.
C3_AsStated == [][\A i \in Ids : EmptyNeighbourhoodRule(i, TRUE)]_vars

\* C3: in a step whose neighbour set is empty the similarity fraction is 0;
\* an agent of the baseline model or a human of the extended model then
\* relocates to an empty cell unless its current_homophily is 0, in which
\* case it stays; an AI agent of the extended model stays where it is.
C3_EmptyNeighbourhood ==
    [][\A i \in Ids : EmptyNeighbourhoodRule(i, Decides(i))]_vars

\* A human with no neighbour and a positive threshold has just been stepped
\* and found its similarity 0.
C3_Witness ==
    /\ last.op = "step" /\ last.neighbors = <<>>
    /\ agents[last.id].type = 0
    /\ last.threshold > 0 /\ last.similarity_fraction = 0

MoveRule(i, decides) ==
    Stepped(i) =>
        IF decides
        THEN IF last'.similarity_fraction < last'.threshold
             THEN /\ agents'[i].pos # agents[i].pos
                  /\ agents'[i].pos \in EmptyCells(agents)
                  /\ model'.happy = model.happy
             ELSE /\ agents'[i].pos = agents[i].pos
                  /\ model'.happy = model.happy + 1
        ELSE /\ agents'[i].pos = agents[i].pos
             /\ model'.happy = model.happy

HappyReset == (model.pc = "idle" /\ model'.pc = "stepping") => model'.happy = 0

\* C4 as stated: in a step an agent, whatever its role, relocates exactly
\* when the similarity fraction of that step is below its current_homophily,
\* and otherwise keeps its position and adds 1 to the happy counter; the
\* counter is 0 at the start of each tick.
C4_AsStated == [][(\A i \in Ids : MoveRule(i, TRUE)) /\ HappyReset]_vars

\* C4: in a step an agent of the baseline model or a human of the extended
\* model relocates exactly when the similarity fraction of that step is
\* below its current_homophily, and otherwise keeps its position and adds 1
\* to the happy counter; an AI agent of the extended model keeps its position
\* and leaves the counter alone; the counter is 0 at the start of each tick.
C4_RelocatesBelowThreshold ==
    [][(\A i \in Ids : MoveRule(i, Decides(i))) /\ HappyReset]_vars

\* In one tick an agent has stayed and been counted happy and a later agent,
\* below its threshold although it has neighbours, has just relocated.
C4_Witness ==
    /\ last.op = "step" /\ last.neighbors # <<>>
    /\ last.similarity_fraction < last.threshold
    /\ last.similarity_fraction > 0
    /\ model.variant = "baseline" \/ agents[last.id].type = 0
    /\ model.happy >= 1

SamePreferenceBots(i, neighbors) ==
    LET similar(n) == IsBot(agents[n])
                      /\ agents[n].preference = agents[i].preference
    IN  Len(SelectSeq(neighbors, similar))

\* C5 as stated: after every step of a social bot its bot_cluster_size is 1
\* plus the number of social bots of its preference in the neighbourhood it
\* queried in that step; a bot with no such neighbour has size exactly 1.
C5_AsStated ==
    (last.op = "step" /\ IsBot(agents[last.id])) =>
        agents[last.id].bot_cluster_size
            = 1 + SamePreferenceBots(last.id, last.neighbors)

\* C6: an update of the recommendation model after a failure never raises
\* success_rate and one after a success never lowers it, from any
\* success_rate in [0, 1] and over any run of updates; success_rate stays
\* in [0, 1].
C6_SuccessRateMonotone ==
    [][/\ agents'[1].success_rate >= 0 /\ agents'[1].success_rate <= Unit
       /\ last'.op = "failure" =>
              agents'[1].success_rate <= agents[1].success_rate
       /\ last'.op = "success" =>
              agents'[1].success_rate >= agents[1].success_rate]_vars

\* A success_rate that started at 0.5 has been carried below 0.4 by three
\* updates, the last of them a failure.
C6_Witness ==
    /\ model.variant = "recommender" /\ model.step_count = 3
    /\ last.op = "failure"
    /\ agents[1].success_rate > 0 /\ agents[1].success_rate < Dec(4, 10)

\* C7: likes, comments and shares of every agent are non-negative integers
\* that no transition decreases.
C7_CountersNeverDecrease ==
    [][\A i \in Ids :
        /\ agents'[i].likes \in Nat /\ agents'[i].likes >= agents[i].likes
        /\ agents'[i].comments \in Nat
        /\ agents'[i].comments >= agents[i].comments
        /\ agents'[i].shares \in Nat
        /\ agents'[i].shares >= agents[i].shares]_vars

\* An agent has engaged more than once.
C7_Witness ==
    \E i \in Ids :
        /\ agents[i].likes + agents[i].comments + agents[i].shares >= 2
        /\ last.op = "step" /\ last.id = i /\ last.fired # "none"

\* C8 as stated: a tick steps every agent; no tick is left with an agent
\* that has not been stepped and will not be.
C8_AsStated == (model.pc = "stepping" /\ todo # {}) => err = "none"

\* Tick k's happy fraction, as the datacollector recorded it (entry 1 is the
\* constructor's collect).
HappyRatio(k) == (model.happy_log[k + 1] * Unit) \div Cardinality(Ids)

\* The comparison of tick k with tick k - 1; tick 1 has none.
Stable(k) == k >= 2 /\ Abs(HappyRatio(k) - HappyRatio(k - 1)) < Dec(2, 100)

\* The comparisons below the tolerance that end the run so far.
StableRun ==
    LET n == model.step_count
    IN  CHOOSE c \in 0..n :
            /\ \A k \in (n - c + 1)..n : Stable(k)
            /\ c < n => ~Stable(n - c)

\* C9: after a tick of the extended model running is false exactly when
\* each of the last 5 tick-to-tick comparisons of the happy fraction was
\* below 0.02; the counter is the number of such comparisons since the last
\* one at or above 0.02, and the first tick contributes none.
C9_PlateauStopsRun ==
    (model.variant = "extended" /\ model.pc = "idle" /\ model.step_count >= 1) =>
        /\ model.happy_plateau_counter = StableRun
        /\ model.running = ~(/\ model.step_count >= 6
                             /\ \A k \in (model.step_count - 4)..model.step_count :
                                    Stable(k))

\* A run has stopped on a plateau after its counter, raised by a stable
\* comparison, had been reset by a change of the happy fraction.
C9_Witness ==
    /\ model.variant = "extended" /\ model.pc = "idle" /\ ~model.running
    /\ model.happy_plateau_counter = 5
    /\ \E k \in 2..(model.step_count - 1) : Stable(k) /\ ~Stable(k + 1)

BaselineStopRule ==
    (model.variant = "baseline" /\ err = "none") =>
        /\ model.step_count <= model.max_steps
        /\ (model.pc = "idle" /\ model.step_count >= 1) =>
              (model.running = (/\ model.happy < Cardinality(Ids)
                                /\ model.step_count < model.max_steps))

OneStepPerTick ==
    /\ (model.pc = "stepping" /\ model'.pc = "idle") =>
            model'.step_count = model.step_count + 1
    /\ ~(model.pc = "stepping" /\ model'.pc = "idle") =>
            model'.step_count = model.step_count

\* C10: a run of the baseline model that is stepped while running is true
\* stops: running is false once step_count has reached max_steps, and after
\* any earlier tick in which every agent was happy, and only then; each tick
\* adds exactly 1 to step_count.
C10_BaselineTerminates ==
    /\ []BaselineStopRule
    /\ [][OneStepPerTick]_vars
    /\ <>(err # "none" \/ (model.pc = "idle" /\ ~model.running))

\* A run that used its whole budget of at least two ticks with an agent
\* still unhappy.
C10_Witness ==
    /\ model.variant = "baseline" /\ model.pc = "idle" /\ ~model.running
    /\ model.max_steps >= 2 /\ model.step_count = model.max_steps
    /\ model.happy < Cardinality(Ids)

\* C11 as stated: a model built from a malformed configuration (here a
\* negative homophily) is rejected when it is constructed, so no agent is
\* ever stepped with such a value.
C11_AsStated == ~(last.op = "step" /\ agents[last.id].base_homophily < 0)

\* C12 as stated: the engagement probability an agent's step compares with
\* its uniform draw lies in [0, 1], for every role, clustered bots and
\* connected agents included.
C12_AsStated == last.op = "step" => (0 <= last.prob /\ last.prob <= Unit)

\* The engagement the step of the last record added to counter kind.
FiredNow(kind) == IF last'.fired = kind THEN 1 ELSE 0

AmplificationRange ==
    \A i \in Ids : agents[i].type = 1 =>
        /\ Unit <= agents[i].amplification_power
        /\ agents[i].amplification_power <= 3 * Unit
        /\ agents[i].human_influence_radius \in {1, 2, 3}

\* The scenario of the claim: cluster size 3, likes 10, comments 5, shares 2.
AmplificationScenario ==
    \A i \in Ids : IsBot(agents[i]) =>
        LET b == amplify_bot_power([agents[i] EXCEPT !.bot_cluster_size = 3,
                                       !.likes = 10, !.comments = 5, !.shares = 2])
        IN  b.amplification_power = 15600 /\ b.human_influence_radius = 2

\* A bot whose step ran the amplification update (its cluster size is above
\* 1) holds the values of the formula, on the counters it had at the update.
AmplificationUpdate(i) ==
    (Stepped(i) /\ IsBot(agents[i]) /\ agents'[i].bot_cluster_size > 1) =>
        LET c == agents'[i].bot_cluster_size
            e == (agents'[i].likes - FiredNow("like"))
                 + 2 * (agents'[i].comments - FiredNow("comment"))
                 + 3 * (agents'[i].shares - FiredNow("share"))
            cluster_bonus == IF c * 1000 <= 5000 THEN c * 1000 ELSE 5000
            engagement_bonus == IF e * 100 <= 5000 THEN e * 100 ELSE 5000
        IN  /\ agents'[i].amplification_power
                    = 10000 + cluster_bonus + engagement_bonus
            /\ agents'[i].human_influence_radius
                    = (IF 1 + (c \div 3) <= 3 THEN 1 + (c \div 3) ELSE 3)

\* C13: every AI agent has amplification_power in [1, 3] and
\* human_influence_radius in {1, 2, 3}; after an amplification update they
\* are min(3, 1 + min(0.5, 0.1 * cluster_size) + min(0.5, 0.01 * (likes +
\* 2 * comments + 3 * shares))) and min(3, 1 + cluster_size div 3); cluster
\* size 3 with likes 10, comments 5, shares 2 gives 1.56.
C13_AmplificationPower ==
    /\ [](AmplificationRange /\ AmplificationScenario)
    /\ [][\A i \in Ids : AmplificationUpdate(i)]_vars

\* A bot in a cluster of 2 that has amplified content (each counter at 1)
\* has just been given the power 1 + 0.2 + 0.06.
C13_Witness ==
    /\ last.op = "step" /\ IsBot(agents[last.id])
    /\ agents[last.id].bot_cluster_size = 2
    /\ agents[last.id].likes = 1 /\ agents[last.id].comments = 1
    /\ agents[last.id].shares = 1
    /\ agents[last.id].amplification_power = 12600

\* The scenario of C14 for the step of agent i: a human with base_homophily
\* 0.4 and no engagement so far, all of whose neighbours are humans of its
\* preference.
AllAlikeHumans(i) ==
    /\ Stepped(i) /\ agents[i].type = 0
    /\ agents[i].base_homophily = 4000
    /\ agents[i].likes = 0 /\ agents[i].comments = 0 /\ agents[i].shares = 0
    /\ last'.neighbors # <<>>
    /\ \A k \in 1..Len(last'.neighbors) :
          /\ agents[last'.neighbors[k]].type = 0
          /\ agents[last'.neighbors[k]].preference = agents[i].preference

\* No network blend: the agent has no stored connection when the similarity
\* is computed (the baseline agent has no connections at all).
NoNetworkBlend(i) ==
    model.variant = "baseline" \/ agents'[i].connections = NoFn

\* C14: a human with base_homophily 0.4, only same-preference human
\* neighbours and zero engagement counters computes similarity 0.5 when no
\* network blend applies, is happy, keeps its position and adds 1 to the
\* happy counter.
C14_AllAlikeHumanIsHappy ==
    [][\A i \in Ids : AllAlikeHumans(i) =>
          /\ NoNetworkBlend(i) => last'.similarity_fraction = 5000
          /\ last'.similarity_fraction >= 4000
          /\ agents'[i].pos = agents[i].pos
          /\ model'.happy = model.happy + 1]_vars

\* A human of the scenario has just been stepped with similarity 0.5 and
\* counted happy.
C14_Witness ==
    /\ last.op = "step" /\ agents[last.id].type = 0
    /\ agents[last.id].base_homophily = 4000
    /\ agents[last.id].likes + agents[last.id].comments
           + agents[last.id].shares = 0
    /\ last.neighbors # <<>>
    /\ \A k \in 1..Len(last.neighbors) :
          /\ agents[last.neighbors[k]].type = 0
          /\ agents[last.neighbors[k]].preference = agents[last.id].preference
    /\ last.similarity_fraction = 5000
    /\ model.happy >= 1

\* The step of recommender i made an attempt for its one human neighbour u:
\* 'personalize' and 'exploit' evaluate every human neighbour.
Attempted(i, u) ==
    /\ Stepped(i) /\ IsRecSys(agents[i])
    /\ last'.op = "step" /\ last'.action \in {"personalize", "exploit"}
    /\ agents[u].type = 0
    /\ \E k \in 1..Len(last'.neighbors) : last'.neighbors[k] = u
    /\ \A k \in 1..Len(last'.neighbors) :
          agents[last'.neighbors[k]].type = 0 => last'.neighbors[k] = u

\* How the code evaluated that attempt (lines 600 and 619).
Evaluated(i, u) ==
    IF last'.action = "exploit"
    THEN generate_recommendations(agents[i], u, agents[u]) = agents[u].preference
    ELSE agents[u].engagement_rate > agents[u].base_homophily

\* C15 as stated: after a recommender's attempt for a human neighbour its
\* success_rate is success_rate * 0.9 + 0.1 on success and success_rate *
\* 0.9 on failure, and recommendation_strength is adjusted by the same
\* update within [0.5, 3].
C15_AsStated ==
    [][\A i, u \in Ids : Attempted(i, u) =>
          LET learnt == update_recommendation_model(agents[i], Evaluated(i, u))
          IN  /\ agents'[i].success_rate = learnt.success_rate
              /\ agents'[i].recommendation_strength
                     = learnt.recommendation_strength]_vars

\* C16 as stated: when the recommendation made to a human neighbour is
\* evaluated as successful, that human's current_homophily is raised by
\* 0.1 * recommendation_strength of the recommender, capped at 1.
C16_AsStated ==
    [][\A i, u \in Ids : (Attempted(i, u) /\ Evaluated(i, u)) =>
          agents'[u].current_homophily
              = Min(Unit, agents[u].current_homophily
                          + Mul(Dec(1, 10), agents[i].recommendation_strength))]_vars

\* The step of recommender i ran one of its three actions with u its one
\* human neighbour.
RecommenderActed(i, u) ==
    /\ Stepped(i) /\ IsRecSys(agents[i]) /\ last'.op = "step"
    /\ agents[u].type = 0
    /\ \E k \in 1..Len(last'.neighbors) : last'.neighbors[k] = u
    /\ \A k \in 1..Len(last'.neighbors) :
          agents[last'.neighbors[k]].type = 0 => last'.neighbors[k] = u

\* The category recommended to u, and whether u engages beyond its base.
Matches(i, u) ==
    generate_recommendations(agents[i], u, agents[u]) = agents[u].preference

Engaged(u) == agents[u].engagement_rate > agents[u].base_homophily

\* The step counted a success for u: tracked in the interaction history and
\* rewarded with the given amount, or neither.
CountedSuccess(i, u, counted, amount) ==
    LET h == agents[i].interaction_history
        h2 == agents'[i].interaction_history
        entry == agents'[i].action_history[Len(agents'[i].action_history)]
    IN  IF counted
        THEN /\ h2.recommendation_influence = h.recommendation_influence + 1
             /\ u \in h2.influenced_agents
             /\ entry.reward = amount
        ELSE /\ h2.recommendation_influence = h.recommendation_influence
             /\ h2.influenced_agents = h.influenced_agents
             /\ entry.reward = 0

RewardOf(action) ==
    IF action = "personalize" THEN 5000
    ELSE IF action = "explore" THEN 4000 ELSE 7000

\* C17 as stated: an attempt is counted successful exactly when the
\* recommended category equals the human's preference and the human's
\* engagement_rate is above its base_homophily.
C17_AsStated ==
    [][\A i, u \in Ids : RecommenderActed(i, u) =>
          CountedSuccess(i, u, Matches(i, u) /\ Engaged(u),
                         RewardOf(last'.action))]_vars

\* C17: 'exploit' counts a success exactly when the recommended category
\* equals the human's preference, whatever its engagement_rate;
\* 'personalize' exactly when the human's engagement_rate is above its
\* base_homophily; 'explore' attempts only a category other than the
\* human's preference and then counts a success exactly when the
\* engagement_rate is above the base_homophily.
C17_SuccessPerAction ==
    [][\A i, u \in Ids : RecommenderActed(i, u) =>
          CountedSuccess(i, u,
              IF last'.action = "exploit" THEN Matches(i, u)
              ELSE IF last'.action = "personalize" THEN Engaged(u)
              ELSE ~Matches(i, u) /\ Engaged(u),
              RewardOf(last'.action))]_vars

\* A recommender has just exploited beside a human whose engagement_rate is
\* not above its base_homophily, and the attempt was counted and rewarded.
C17_Witness ==
    /\ last.op = "step" /\ last.action = "exploit"
    /\ IsRecSys(agents[last.id])
    /\ \E k \in 1..Len(last.neighbors) :
          LET u == last.neighbors[k]
          IN  /\ agents[u].type = 0
              /\ agents[u].engagement_rate <= agents[u].base_homophily
              /\ u \in agents[last.id].interaction_history.influenced_agents
    /\ agents[last.id].action_history[Len(agents[last.id].action_history)].reward
           = 7000

\* C18 as stated: whatever the action and the neighbourhood, executing the
\* action of an AI agent ends without an error, with a reward summed from
\* entries of the agent's reward table.
C18_AsStated ==
    /\ last.op # "raise"
    /\ (last.op = "step" /\ agents[last.id].type = 1) =>
          LET entry == agents[last.id].action_history[
                           Len(agents[last.id].action_history)]
              table == rewards(agents[last.id])
          IN  \/ entry.reward = 0
              \/ \E key \in DOMAIN table : \E n \in 1..2 :
                    entry.reward = n * table[key]

AmplificationKept(i) ==
    /\ agents'[i].amplification_power = agents[i].amplification_power
    /\ agents'[i].human_influence_radius = agents[i].human_influence_radius

\* C19 as stated: a bot's amplification_power and human_influence_radius
\* are left unchanged by every step but one the bot ends happy (similarity
\* not below its threshold) with bot_cluster_size above 1.
C19_AsStated ==
    [][\A i \in Ids :
          (IsBot(agents[i])
           /\ ~(/\ Stepped(i)
                /\ last'.similarity_fraction >= agents'[i].current_homophily
                /\ agents'[i].bot_cluster_size > 1))
          => AmplificationKept(i)]_vars

\* C19: a bot's amplification_power and human_influence_radius are
\* recomputed, once, in each step of the bot whose action returns with
\* bot_cluster_size above 1, whatever its similarity; every other step
\* leaves both unchanged.
C19_AmplifiedWhenClustered ==
    [][\A i \in Ids : IsBot(agents[i]) =>
          IF Stepped(i) /\ last'.op = "step" /\ agents'[i].bot_cluster_size > 1
          THEN AmplificationUpdate(i)
          ELSE AmplificationKept(i)]_vars

\* A bot below its threshold, in a cluster of 2, has just been stepped and
\* holds a power above 1.
C19_Witness ==
    /\ last.op = "step" /\ IsBot(agents[last.id])
    /\ last.similarity_fraction < last.threshold
    /\ last.similarity_fraction < agents[last.id].current_homophily
    /\ agents[last.id].bot_cluster_size > 1
    /\ agents[last.id].amplification_power > Unit

\* The similarity agent i computes from its neighbours of this step when it
\* holds the connections conns.
SimilarityFrom(i, conns) ==
    similarity(agents, [agents[i] EXCEPT !.connections = conns], last'.neighbors)

\* The step of agent i ran to its end in the given model.
RanStep(i, variant) ==
    Stepped(i) /\ last'.op = "step" /\ model.variant = variant

Stays(i) ==
    agents'[i].pos = agents[i].pos /\ model'.happy = model.happy + 1

\* C20 as stated: the similarity of a step is computed from the connections
\* the agent held before the step, and the agent stays, counted happy,
\* exactly when that similarity is not below the homophily the step's
\* engagement update produced.
C20_AsStated ==
    [][\A i \in Ids :
          /\ RanStep(i, "extended") =>
                agents'[i].echo_chamber_strength
                    = SimilarityFrom(i, agents[i].connections)
          /\ (Stepped(i) /\ last'.op = "step" /\ Decides(i)) =>
                (Stays(i) <=> agents'[i].echo_chamber_strength
                                  >= agents'[i].current_homophily)]_vars

\* C20: in the extended model the connections are refreshed before the
\* similarity is computed from them, and a human decides to relocate on the
\* homophily it had before the step's engagement update, which runs last;
\* in the baseline the engagement update runs before the decision, which
\* uses the homophily it produced.
C20_PhaseOrder ==
    [][\A i \in Ids :
          /\ RanStep(i, "extended") =>
                agents'[i].echo_chamber_strength
                    = SimilarityFrom(i, agents'[i].connections)
          /\ (RanStep(i, "extended") /\ agents[i].type = 0) =>
                (Stays(i) <=> agents'[i].echo_chamber_strength
                                  >= agents[i].current_homophily)
          /\ RanStep(i, "baseline") =>
                (Stays(i) <=> agents'[i].echo_chamber_strength
                                  >= agents'[i].current_homophily)]_vars

\* In the first tick a human of the extended model, stepped with a
\* connection stored by that step, has stayed and been counted happy on a
\* similarity that is above its earlier homophily and below the one its
\* engagement has just produced.
C20_Witness ==
    /\ model.variant = "extended" /\ model.step_count = 0
    /\ last.op = "step" /\ agents[last.id].type = 0
    /\ agents[last.id].connections # NoFn
    /\ last.similarity_fraction >= last.threshold
    /\ last.similarity_fraction < agents[last.id].current_homophily
    /\ agents[last.id].echo_chamber_strength = last.similarity_fraction
    /\ model.happy >= 1

\* What the action of the step added to each counter before the engagement
\* updater ran: the bot's 'amplify' adds 1 to all three (lines 569-571).
AmplifiedNow(i) ==
    IF IsBot(agents[i]) /\ last'.action = "amplify" THEN 1 ELSE 0

\* The engagement the draw d selects.
Selected(d) ==
    IF d < 5000 THEN "like" ELSE IF d < 8000 THEN "comment" ELSE "share"

\* The updater added n to the counter that went from before to after.
UpdaterAdded(i, before, after, n) == after = before + AmplifiedNow(i) + n

\* C21: when the engagement updater fires in a step it adds exactly 1 to
\* exactly one of likes, comments and shares, the one the second draw
\* selects (below 0.5 like, below 0.8 comment, otherwise share); when it
\* does not fire it changes none of the three and leaves current_homophily
\* as it was.
C21_OneCounterPerEngagement ==
    [][\A i \in Ids : (Stepped(i) /\ last'.op = "step") =>
          /\ last'.fired # "none" => last'.fired = Selected(last'.draw)
          /\ UpdaterAdded(i, agents[i].likes, agents'[i].likes,
                          IF last'.fired = "like" THEN 1 ELSE 0)
          /\ UpdaterAdded(i, agents[i].comments, agents'[i].comments,
                          IF last'.fired = "comment" THEN 1 ELSE 0)
          /\ UpdaterAdded(i, agents[i].shares, agents'[i].shares,
                          IF last'.fired = "share" THEN 1 ELSE 0)
          /\ last'.fired = "none" =>
                agents'[i].current_homophily = agents[i].current_homophily]_vars

\* An engagement has just fired on a second draw of exactly 0.5: a comment.
C21_Witness ==
    /\ last.op = "step" /\ last.fired = "comment" /\ last.draw = 5000
    /\ agents[last.id].comments >= 1

\* Agent i, an AI agent of the extended model, has just taken its step,
\* whether the step returned or raised.
AITookStep(i) ==
    /\ model.variant = "extended" /\ agents[i].type = 1
    /\ last'.op \in {"step", "raise"} /\ last'.id = i

\* The Q-update of the step of agent i: one record appended, the Q-value of
\* the action taken moved by the formula, from the table as it was before.
QUpdated(i) ==
    LET q == agents[i].q_values
        history == agents'[i].action_history
        entry == history[Len(history)]
        M == CHOOSE m \in {q[k] : k \in DOMAIN q} : \A k \in DOMAIN q : q[k] <= m
        target == Mul(agents[i].discount_factor, M)
    IN  /\ Len(history) = Len(agents[i].action_history) + 1
        /\ \A n \in 1..Len(agents[i].action_history) :
              history[n] = agents[i].action_history[n]
        /\ entry.action = last'.action
        /\ agents'[i].q_values[entry.action]
              = q[entry.action]
                + Mul(agents[i].learning_rate,
                      entry.reward + target - q[entry.action])
        /\ entry.q_value = agents'[i].q_values[entry.action]
        /\ \A k \in DOMAIN q \ {entry.action} : agents'[i].q_values[k] = q[k]

\* C22 as stated: every step of an AI agent makes exactly one Q-update,
\* Q[a] + learning_rate * (r + discount_factor * max Q - Q[a]) on the action
\* taken, the other Q-values unchanged and one record appended.
C22_AsStated == [][\A i \in Ids : AITookStep(i) => QUpdated(i)]_vars

\* Agent i as its connection update has left it before it turns to its
\* k-th neighbour, and the strength it then computes for that neighbour.
RefreshedUpTo(i, k) ==
    update_network_connections(agents, agents[i], SubSeq(Block(i), 1, k - 1),
                               model.step_count)

Recomputed(i, k) ==
    calculate_connection_strength(RefreshedUpTo(i, k), agents[Block(i)[k]])

\* C23 as stated: when an agent refreshes its connections a second time
\* over the same neighbours, no counter, preference or position having
\* changed since its first run, no entry is added or removed and every
\* stored strength is what it was.
C23_AsStated ==
    (last.op = "step" /\ last.rerun) =>
        /\ DOMAIN agents[last.id].connections = DOMAIN last.before
        /\ \A n \in DOMAIN last.before :
              agents[last.id].connections[n].strength = last.before[n].strength

\* C23: such a second run removes no entry; the strength stored for a
\* neighbour goes to old * 0.8 + total * 0.2 where total, the strength
\* recomputed for that neighbour, is above the threshold, and stays as it
\* was otherwise; an entry is added exactly for a neighbour without one
\* whose recomputed strength is above the threshold.
C23_BlendTowardRecomputed ==
    [][\A i \in Ids : (Stepped(i) /\ i \in last.settled) =>
          LET c == agents[i].connections
              c2 == agents'[i].connections
          IN  /\ DOMAIN c \subseteq DOMAIN c2
              /\ \A k \in 1..Len(Block(i)) :
                    LET n == Block(i)[k]
                        total == Recomputed(i, k)
                    IN  IF n \in DOMAIN c
                        THEN c2[n].strength
                               = (IF total > 3000
                                  THEN (c[n].strength * 8 + total * 2) \div 10
                                  ELSE c[n].strength)
                        ELSE /\ n \in DOMAIN c2 <=> total > 3000
                             /\ n \in DOMAIN c2 => c2[n].strength = total]_vars

\* A second run has just changed a stored strength.
C23_Witness ==
    /\ last.op = "step" /\ last.rerun
    /\ \E n \in DOMAIN last.before :
          agents[last.id].connections[n].strength # last.before[n].strength

\* C24: a step changes the connections map of the stepping agent only; the
\* map of every other agent, its neighbours included, is as it was.
C24_OwnConnectionsOnly ==
    [][\A j \in Ids :
          agents'[j].connections # agents[j].connections =>
              /\ last'.op \in {"step", "raise"} /\ last'.id = j
              /\ j \in todo]_vars

\* An agent has just stored an edge to a neighbour that holds none to it.
C24_Witness ==
    /\ last.op = "step"
    /\ \E n \in DOMAIN agents[last.id].connections :
          /\ last.id \notin DOMAIN agents[n].connections
          /\ \E k \in 1..Len(last.neighbors) : last.neighbors[k] = n

\* The update just run was agent i's, and n was the k-th of its neighbours.
Refreshing(i) == last'.op = "refresh" /\ last'.id = i

NeighborAt(n, k) == k \in 1..Len(last'.neighbors) /\ last'.neighbors[k] = n

\* C25: an entry an agent holds is never removed, and its strength is as it
\* was after every step in which the agent does not update, the other
\* agent is not among the neighbours, or the strength recomputed for it is
\* at or below the threshold.
C25_EntriesPersist ==
    [][\A i \in Ids : \A n \in DOMAIN agents[i].connections :
          /\ n \in DOMAIN agents'[i].connections
          /\ (\/ ~Refreshing(i)
              \/ \A k \in 1..Len(last'.neighbors) : ~NeighborAt(n, k)
              \/ \E k \in 1..Len(last'.neighbors) :
                    /\ NeighborAt(n, k)
                    /\ RecomputedFor(i, last'.neighbors, k) <= 3000)
             => agents'[i].connections[n].strength
                    = agents[i].connections[n].strength]_vars

\* An update has just left two entries as they were: one of an agent that
\* was not among the neighbours, one of a neighbour whose recomputed
\* strength was not above the threshold.
C25_Witness ==
    /\ last.op = "refresh"
    /\ \E n \in DOMAIN last.before :
          /\ \A k \in 1..Len(last.neighbors) : last.neighbors[k] # n
          /\ agents[last.id].connections[n] = last.before[n]
    /\ \E k \in 1..Len(last.neighbors) :
          /\ last.neighbors[k] \in DOMAIN last.before
          /\ last.totals[k] <= 3000
          /\ agents[last.id].connections[last.neighbors[k]]
                = last.before[last.neighbors[k]]

\* The human neighbours of the step just taken.
HumanNeighbors(i) ==
    {u \in Ids : agents[u].type = 0
                 /\ \E k \in 1..Len(last'.neighbors) : last'.neighbors[k] = u}

RecommendsOwnPreference ==
    \A i, u \in Ids : (IsRecSys(agents[i]) /\ agents[u].type = 0) =>
        generate_recommendations(agents[i], u, agents[u]) = agents[u].preference

\* What a recommender's step with the given action leaves: 'explore' no
\* trace in the interaction history and reward 0, 'exploit' a success and
\* the reward 0.7 for every human neighbour.
ExploreAndExploit(i) ==
    LET h == agents[i].interaction_history
        h2 == agents'[i].interaction_history
        entry == agents'[i].action_history[Len(agents'[i].action_history)]
        humans == HumanNeighbors(i)
    IN  /\ last'.action = "explore" => (h2 = h /\ entry.reward = 0)
        /\ last'.action = "exploit" =>
              /\ h2.recommendation_influence
                    = h.recommendation_influence + Cardinality(humans)
              /\ humans \subseteq h2.influenced_agents
              /\ entry.reward = Cardinality(humans) * 7000

StrengthWithoutBonus(a, o) ==
    LET total == (calculate_direct_strength(a, o) * 7
                  + calculate_indirect_strength(a, o) * 3) \div 10
    IN  IF total <= 10000 THEN total ELSE 10000

\* C27: every recommendation algorithm of the extended model has
\* success_rate 0 and recommendation_strength 1.0 in every state, so the
\* strength it computes for a human never includes the bonus of 0.2.
C27_RecommenderNeverLearns ==
    \A i \in Ids : IsRecSys(agents[i]) =>
        /\ agents[i].success_rate = 0
        /\ agents[i].recommendation_strength = 10000
        /\ \A u \in Ids : agents[u].type = 0 =>
              calculate_connection_strength(agents[i], agents[u])
                  = StrengthWithoutBonus(agents[i], agents[u])

\* A recommender with two successes counted holds a connection to its human
\* neighbour and has just been stepped.
C27_Witness ==
    /\ last.op = "step" /\ IsRecSys(agents[last.id])
    /\ agents[last.id].interaction_history.recommendation_influence >= 2
    /\ agents[last.id].success_rate = 0
    /\ \E k \in 1..Len(last.neighbors) :
          /\ agents[last.neighbors[k]].type = 0
          /\ last.neighbors[k] \in DOMAIN agents[last.id].connections

Humans == {i \in Ids : agents[i].type = 0}

\* The happy counter, now and as collected after each tick, is at most the
\* number of humans, so "Happy Agents %" is below 100 with an AI agent.
HappyWithinHumans ==
    model.variant = "extended" =>
        /\ model.happy <= Cardinality(Humans)
        /\ \A k \in 2..Len(model.happy_log) :
              /\ model.happy_log[k] <= Cardinality(Humans)
              /\ Humans # Ids =>
                    (model.happy_log[k] * 100) \div Cardinality(Ids) < 100

\* C28: in the extended model the step of an AI agent changes neither its
\* position nor the happy counter; so the counter is at most the number of
\* humans after every tick and the happy percentage is below 100 whenever
\* there is an AI agent.
C28_AIAgentsNeverHappy ==
    /\ []HappyWithinHumans
    /\ [][\A i \in Ids :
            (model.variant = "extended" /\ agents[i].type = 1
             /\ last'.op \in {"step", "raise"} /\ last'.id = i)
            => /\ agents'[i].pos = agents[i].pos
               /\ model'.happy = model.happy]_vars

\* A tick of a population with an AI agent has ended with every human
\* happy.
C28_Witness ==
    /\ model.variant = "extended" /\ last.op = "end"
    /\ Humans # Ids /\ Humans # {}
    /\ model.happy_log[Len(model.happy_log)] = Cardinality(Humans)

SamePreference(i, n) == agents[i].preference = agents[n].preference

\* C29: the strength an agent computes for an agent of its preference is
\* at least 0.35, whatever their counters and shared connections, and after
\* its step it holds an entry, of at least that strength, for every
\* neighbour of its preference seen in the step.
C29_SamePreferenceConnected ==
    /\ [](\A i, n \in Ids : (i # n /\ SamePreference(i, n)) =>
              calculate_connection_strength(agents[i], agents[n]) >= 3500)
    /\ [][\A i \in Ids : (Stepped(i) /\ model.variant = "extended") =>
            \A k \in 1..Len(last'.neighbors) :
                LET n == last'.neighbors[k]
                IN  SamePreference(i, n) =>
                      /\ n \in DOMAIN agents'[i].connections
                      /\ agents'[i].connections[n].strength >= 3500]_vars

\* An agent that has engaged has just been stepped beside an agent of its
\* preference, with which it shares a connection, and holds its entry.
C29_Witness ==
    /\ last.op = "step"
    /\ agents[last.id].likes + agents[last.id].comments
           + agents[last.id].shares >= 1
    /\ \E k \in 1..Len(last.neighbors) :
          LET n == last.neighbors[k]
          IN  /\ agents[n].preference = agents[last.id].preference
              /\ calculate_indirect_strength(agents[last.id], agents[n]) > 0
              /\ n \in DOMAIN agents[last.id].connections
              /\ agents[last.id].connections[n].strength > 3500

============================================================================
